---- MODULE Spec2Model ----
(***************************************************************************)
(* Model of 4_Pilares.py: sliding-window sensors (Sensor and its three     *)
(* variants), GestorAlertas and ControladorLuces.                          *)
(*                                                                         *)
(* Readings are decimal fixed-point numbers: the integer n stands for the  *)
(* reading n / 10 (tenths).       Averages are kept as exact fractions      *)
(* <<numerator, denominator>>, which is how statistics.mean computes them  *)
(* before the final conversion to float.                                   *)
(***************************************************************************)
EXTENDS Integers, Sequences, FiniteSets, TLC

VARIABLES
    sensores,          \* the Sensor objects, in registration order
    hist,              \* per sensor, every raw value passed to leer (history)
    notificadores,     \* GestorAlertas._notificadores
    enviados,          \* the enviar calls made by the last evaluar_y_notificar
    evals_seguidas,    \* evaluar_y_notificar calls since the last leer
    sensor,            \* ControladorLuces.sensor (index into sensores, 0: none)
    luces_encendidas,  \* ControladorLuces.luces_encendidas
    salida,            \* lines printed by the last verificar_movimiento
    ultima,            \* the operation that ran last
    luz_antes,         \* luces_encendidas before the last verificar_movimiento
    alerta_ult,        \* <<en_alerta()>> as the last verificar_movimiento saw
                       \*   it, <<>> before the first one
    racha,             \* per verificar_movimiento of the current run in alert:
                       \*   did it print LUCES ENCENDIDAS
    luz0               \* luces_encendidas at the start of the current run

vars == <<sensores, hist, notificadores, enviados, evals_seguidas, sensor,
          luces_encendidas, salida, ultima, luz_antes, alerta_ult, racha, luz0>>

----------------------------------------------------------------------------
(* Bounds and program constants *)

VentanaDefecto == 5
CalibracionDefecto == 0
UmbralDefecto == 800
RmsUmbralDefecto == 25
MovUmbralDefecto == 10

MaxVentana == 3
MaxLecturas == MaxVentana + 1
MaxRacha == 3
MaxNotificadores == 2

Tipos == {"temperatura", "vibracion", "movimiento"}

----------------------------------------------------------------------------
(* Arithmetic helpers *)

RECURSIVE Suma(_)
Suma(b) == IF b = <<>> THEN 0 ELSE Head(b) + Suma(Tail(b))

RECURSIVE SumaCuadrados(_)
SumaCuadrados(b) ==
    IF b = <<>> THEN 0 ELSE Head(b) * Head(b) + SumaCuadrados(Tail(b))

Abs(x) == IF x < 0 THEN -x ELSE x

\* equality of two fractions with positive denominators
FracIgual(a, b) == a[1] * b[2] = b[1] * a[2]

----------------------------------------------------------------------------
(* Sensor *)

NuevoSensor(tipo, id, ventana, calibracion, umbral) ==
    [tipo |-> tipo, id |-> id, ventana |-> ventana,
     _calibracion |-> calibracion, umbral |-> umbral, _buffer |-> <<>>]

\* Sensor.leer, with pop() in place of pop(0)
leer_pop_ultimo(s, valor) ==
    LET v == valor + s._calibracion
        b == Append(s._buffer, v)
    IN  [s EXCEPT !._buffer =
            IF Len(b) > s.ventana THEN SubSeq(b, 1, Len(b) - 1) ELSE b]

\* Sensor.leer, storing the raw value
leer_sin_calibrar(s, valor) ==
    LET b == Append(s._buffer, valor)
    IN  [s EXCEPT !._buffer = IF Len(b) > s.ventana THEN Tail(b) ELSE b]

leer(s, valor) ==
    LET v == valor + s._calibracion
        b == Append(s._buffer, v)
    IN  [s EXCEPT !._buffer = IF Len(b) > s.ventana THEN Tail(b) ELSE b]

promedio(s) ==
    IF s._buffer # <<>> THEN <<Suma(s._buffer), Len(s._buffer)>> ELSE <<0, 1>>

\* statistics.stdev(b) >= u for Len(b) >= 2: the sample variance is
\* (n * sum(x^2) - sum(x)^2) / (n * (n - 1)) and the deviation is never negative
VarianzaNum(b) == Len(b) * SumaCuadrados(b) - Suma(b) * Suma(b)
VarianzaDen(b) == Len(b) * (Len(b) - 1)
StdevMayorIgual(b, u) ==
    IF u <= 0 THEN TRUE ELSE VarianzaNum(b) >= u * u * VarianzaDen(b)

en_alerta_temperatura(s) == promedio(s)[1] >= s.umbral * promedio(s)[2]

\* SensorVibracion.en_alerta without abs()
en_alerta_vibracion_sin_abs(s) == promedio(s)[1] >= s.umbral * promedio(s)[2]

en_alerta_vibracion(s) == Abs(promedio(s)[1]) >= s.umbral * promedio(s)[2]

\* SensorMovimento.en_alerta without the division by n - 1
en_alerta_movimiento_sin_dividir(s) ==
    IF Len(s._buffer) < 2 THEN FALSE
    ELSE IF s.umbral <= 0 THEN TRUE
    ELSE VarianzaNum(s._buffer) >= s.umbral * s.umbral * Len(s._buffer)

\* SensorMovimento.en_alerta without the guard on the buffer length
en_alerta_movimiento_sin_guarda(s) ==
    IF Len(s._buffer) < 1 THEN FALSE
    ELSE StdevMayorIgual(s._buffer, s.umbral)

en_alerta_movimiento(s) ==
    IF Len(s._buffer) < 2 THEN FALSE
    ELSE StdevMayorIgual(s._buffer, s.umbral)

en_alerta(s) ==
    CASE s.tipo = "temperatura" -> en_alerta_temperatura(s)
      [] s.tipo = "vibracion"   -> en_alerta_vibracion(s)
      [] s.tipo = "movimiento"  -> en_alerta_movimiento(s)

UmbralDe(tipo) ==
    CASE tipo = "temperatura" -> UmbralDefecto
      [] tipo = "vibracion"   -> RmsUmbralDefecto
      [] tipo = "movimiento"  -> MovUmbralDefecto

IdDe(tipo) ==
    CASE tipo = "temperatura" -> "T1"
      [] tipo = "vibracion"   -> "V1"
      [] tipo = "movimiento"  -> "M1"

----------------------------------------------------------------------------
(* Specification SpecSensor: one sensor, constructed with any window and   *)
(* calibration, then fed readings.                                         *)

VentanasS == -1 .. MaxVentana
CalibracionesS == {-1, 0, 2}
ValoresS == {-2, 0, 3}

SinGestor ==
    /\ notificadores = <<>>
    /\ enviados = <<>>
    /\ evals_seguidas = 0

SinControlador ==
    /\ sensor = 0
    /\ luces_encendidas = FALSE
    /\ salida = <<>>
    /\ luz_antes = FALSE
    /\ alerta_ult = <<>>
    /\ racha = <<>>
    /\ luz0 = FALSE

InitSensor ==
    /\ sensores = <<>>
    /\ hist = <<>>
    /\ ultima = "init"
    /\ SinGestor
    /\ SinControlador

varsGestor == <<notificadores, enviados, evals_seguidas>>
varsControlador ==
    <<sensor, luces_encendidas, salida, luz_antes, alerta_ult, racha, luz0>>

Crear(tipo, ventana, calibracion) ==
    /\ sensores = <<>>
    /\ sensores' = <<NuevoSensor(tipo, IdDe(tipo), ventana, calibracion,
                                 UmbralDe(tipo))>>
    /\ hist' = << <<>> >>
    /\ ultima' = "crear"
    /\ UNCHANGED <<varsGestor, varsControlador>>

LeerS(valor) ==
    /\ Len(sensores) = 1
    /\ Len(hist[1]) < MaxLecturas
    /\ sensores' = [sensores EXCEPT ![1] = leer(@, valor)]
    /\ hist' = [hist EXCEPT ![1] = Append(@, valor)]
    /\ ultima' = "leer"
    /\ UNCHANGED <<varsGestor, varsControlador>>

NextSensor ==
    \/ \E tipo \in Tipos, w \in VentanasS, c \in CalibracionesS : Crear(tipo, w, c)
    \/ \E v \in ValoresS : LeerS(v)

SpecSensor == InitSensor /\ [][NextSensor]_vars

----------------------------------------------------------------------------
Min(a, b) == IF a < b THEN a ELSE b

\* C1: for a sensor created with a positive ventana and an empty buffer the
\* buffer never holds more than ventana readings, and a leer on a full buffer
\* removes exactly the oldest reading and keeps the others in arrival order.
C1_VentanaFIFO ==
    /\ [](\A i \in DOMAIN sensores :
            sensores[i].ventana > 0 =>
                Len(sensores[i]._buffer) <= sensores[i].ventana)
    /\ [][\A i \in DOMAIN sensores :
            (/\ sensores[i].ventana > 0
             /\ Len(sensores[i]._buffer) = sensores[i].ventana
             /\ hist'[i] # hist[i])
            => /\ Len(sensores'[i]._buffer) = sensores[i].ventana
               /\ SubSeq(sensores'[i]._buffer, 1, sensores[i].ventana - 1)
                    = Tail(sensores[i]._buffer)
               /\ sensores'[i]._buffer[sensores[i].ventana]
                    = hist'[i][Len(hist'[i])] + sensores[i]._calibracion]_vars

\* a full buffer of distinct readings has had its oldest reading evicted
C1_Witness ==
    /\ Len(sensores) = 1
    /\ sensores[1].ventana = 2
    /\ Len(hist[1]) = 3
    /\ hist[1][1] # hist[1][2]
    /\ sensores[1]._buffer = <<hist[1][2] + sensores[1]._calibracion,
                               hist[1][3] + sensores[1]._calibracion>>

\* the mean of the last m calibrated raw values of h, as a fraction
MediaUltimos(h, m, c) ==
    <<Suma([k \in 1 .. m |-> h[Len(h) - m + k] + c]), m>>

\* C2: promedio is the arithmetic mean of (value + calibration) over exactly
\* the last min(n, ventana) recorded values, and 0.0 when nothing was recorded.
C2_Promedio ==
    \A i \in DOMAIN sensores :
        sensores[i].ventana > 0 =>
            LET n == Len(hist[i])
                m == Min(n, sensores[i].ventana)
            IN  IF n = 0
                THEN promedio(sensores[i]) = <<0, 1>>
                ELSE /\ promedio(sensores[i])[2] = m
                     /\ FracIgual(promedio(sensores[i]),
                                  MediaUltimos(hist[i], m, sensores[i]._calibracion))

\* more readings than the window, a non-zero calibration, and an evicted
\* reading that differs from those kept
C2_Witness ==
    /\ Len(sensores) = 1
    /\ sensores[1].ventana = 2
    /\ sensores[1]._calibracion = 2
    /\ hist[1] = <<3, 0, -2>>
    /\ promedio(sensores[1]) = <<2, 2>>

\* C9: no sensor with a non-positive ventana ever exists.
C9_VentanaPositiva ==
    \A i \in DOMAIN sensores : sensores[i].ventana > 0

----------------------------------------------------------------------------
(* Specification SpecVibracion: a SensorVibracion with the default window  *)
(* and calibration.                                                        *)

ValoresV == {-30, 5, 10, 20, 30}
UmbralesV == {RmsUmbralDefecto, 10}

\* Sensor.leer on sensor i, called from outside the gestor and the controlador
Leer(i, valor) ==
    /\ i \in DOMAIN sensores
    /\ sensores' = [sensores EXCEPT ![i] = leer(@, valor)]
    /\ ultima' = "leer"
    /\ evals_seguidas' = 0
    /\ racha' = <<>>
    /\ luz0' = FALSE
    /\ UNCHANGED <<hist, notificadores, enviados, sensor, luces_encendidas,
                   salida, luz_antes, alerta_ult>>

InitVibracion ==
    /\ \E u \in UmbralesV :
          sensores = <<NuevoSensor("vibracion", "V1", VentanaDefecto,
                                   CalibracionDefecto, u)>>
    /\ hist = <<>>
    /\ ultima = "init"
    /\ SinGestor
    /\ SinControlador

NextVibracion == \E v \in ValoresV : Leer(1, v)

SpecVibracion == InitVibracion /\ [][NextVibracion]_vars

\* C10: a SensorVibracion is in alert exactly when the absolute value of its
\* average is at least rms_umbral (so a negative average alerts too); with
\* threshold 2.5, [0.5, 1.0, 2.0] does not alert and [3.0, 3.0] does.
C10_Vibracion ==
    \A i \in DOMAIN sensores :
        LET s == sensores[i]
            b == s._buffer
        IN  s.tipo = "vibracion" =>
              /\ b = <<>> => (en_alerta(s) <=> 0 >= s.umbral)
              /\ b # <<>> =>
                    (en_alerta(s) <=>
                        \/ Suma(b) >= s.umbral * Len(b)
                        \/ Suma(b) <= -(s.umbral * Len(b)))
              /\ (s.umbral = 25 /\ b = <<5, 10, 20>>) => ~en_alerta(s)
              /\ (s.umbral = 25 /\ b = <<30, 30>>) => en_alerta(s)

\* a negative average beyond the threshold, in alert
C10_Witness ==
    /\ Len(sensores) = 1
    /\ sensores[1].tipo = "vibracion"
    /\ sensores[1].umbral = 25
    /\ sensores[1]._buffer = <<-30, -30>>
    /\ en_alerta(sensores[1])

----------------------------------------------------------------------------
(* ControladorLuces *)

ENCENDIDAS == "LUCES ENCENDIDAS"
APAGADAS == "LUCES APAGADAS"
NO_MOVIMIENTO == "No hay suficiente movimiento detectado"

\* the state of a controlador while a method runs: the flag and what it printed
Ctl(luces, impreso) == [luces_encendidas |-> luces, impreso |-> impreso]

\* ControladorLuces.encender_luces without the guard on the flag
encender_luces_sin_guarda(c) ==
    Ctl(TRUE, Append(c.impreso, ENCENDIDAS))

encender_luces(c) ==
    IF ~c.luces_encendidas
    THEN Ctl(TRUE, Append(c.impreso, ENCENDIDAS))
    ELSE c

\* ControladorLuces.apagar_luces that prints but leaves the flag alone
apagar_luces_sin_cambio(c) ==
    IF c.luces_encendidas
    THEN Ctl(c.luces_encendidas, Append(c.impreso, APAGADAS))
    ELSE c

\* ControladorLuces.apagar_luces without the guard on the flag
apagar_luces_sin_guarda(c) ==
    Ctl(FALSE, Append(c.impreso, APAGADAS))

apagar_luces(c) ==
    IF c.luces_encendidas
    THEN Ctl(FALSE, Append(c.impreso, APAGADAS))
    ELSE c

verificar_movimiento(s, c) ==
    IF en_alerta(s)
    THEN encender_luces(c)
    ELSE LET a == apagar_luces(c)
         IN  Ctl(a.luces_encendidas, Append(a.impreso, NO_MOVIMIENTO))

Contiene(seq, x) == \E k \in DOMAIN seq : seq[k] = x

\* controlador.verificar_movimiento()
Verificar ==
    /\ sensor \in DOMAIN sensores
    /\ LET s == sensores[sensor]
           r == verificar_movimiento(s, Ctl(luces_encendidas, <<>>))
       IN  /\ en_alerta(s) => Len(racha) < MaxRacha
           /\ luces_encendidas' = r.luces_encendidas
           /\ salida' = r.impreso
           /\ luz_antes' = luces_encendidas
           /\ alerta_ult' = <<en_alerta(s)>>
           /\ racha' = IF en_alerta(s)
                       THEN Append(racha, Contiene(r.impreso, ENCENDIDAS))
                       ELSE <<>>
           /\ luz0' = IF en_alerta(s)
                      THEN (IF racha = <<>> THEN luces_encendidas ELSE luz0)
                      ELSE FALSE
    /\ ultima' = "verificar"
    /\ UNCHANGED <<sensores, hist, varsGestor, sensor>>

----------------------------------------------------------------------------
(* Specification SpecLuces: a SensorMovimento and the ControladorLuces     *)
(* bound to it; leer and verificar_movimiento interleave freely.           *)

VentanasM == {1, VentanaDefecto}
UmbralesM == {0, MovUmbralDefecto}
ValoresM == {0, 2, 10, 15, 1000}

InitLuces ==
    /\ \E w \in VentanasM, u \in UmbralesM :
          sensores = <<NuevoSensor("movimiento", "M1", w, CalibracionDefecto, u)>>
    /\ hist = <<>>
    /\ ultima = "init"
    /\ SinGestor
    /\ sensor = 1
    /\ luces_encendidas = FALSE
    /\ salida = <<>>
    /\ luz_antes = FALSE
    /\ alerta_ult = <<>>
    /\ racha = <<>>
    /\ luz0 = FALSE

NextLuces ==
    \/ \E v \in ValoresM : Leer(1, v)
    \/ Verificar

SpecLuces == InitLuces /\ [][NextLuces]_vars

\* C4: luces_encendidas is false before the first verificar_movimiento and
\* otherwise is the value en_alerta had at the most recent one; a later leer
\* does not change it, even when it changes the alert predicate.
C4_LucesUltimaVerificacion ==
    luces_encendidas = (alerta_ult # <<>> /\ alerta_ult[1])

\* after a check that saw the alert, a leer has ended the alert and the
\* lights are still on
C4_Witness ==
    /\ ultima = "leer"
    /\ alerta_ult = <<TRUE>>
    /\ sensor \in DOMAIN sensores
    /\ ~en_alerta(sensores[sensor])
    /\ luces_encendidas

Cuenta(seq) == Cardinality({k \in DOMAIN seq : seq[k]})

\* C5: in a run of consecutive verificar_movimiento calls with the sensor in
\* alert, LUCES ENCENDIDAS is printed exactly once, by the first call, when the
\* lights were off at the start of the run, and never when they were on.
C5_EncendidoUnaVez ==
    racha # <<>> =>
        /\ Cuenta(racha) = (IF luz0 THEN 0 ELSE 1)
        /\ ~luz0 => racha[1]

\* two calls in a row in alert, starting with the lights off
C5_Witness ==
    /\ ultima = "verificar"
    /\ ~luz0
    /\ racha = <<TRUE, FALSE>>

\* C6: a verificar_movimiento with the sensor not in alert prints the
\* insufficient-movement line and leaves the lights off, whether they were on
\* or not; it prints LUCES APAGADAS only when the lights were on before.
C6_SinMovimiento ==
    (ultima = "verificar" /\ alerta_ult = <<FALSE>>) =>
        /\ Contiene(salida, NO_MOVIMIENTO)
        /\ ~luces_encendidas
        /\ Contiene(salida, APAGADAS) => luz_antes

\* a check out of alert that found the lights on
C6_Witness ==
    /\ ultima = "verificar"
    /\ alerta_ult = <<FALSE>>
    /\ luz_antes
    /\ ~luces_encendidas
    /\ salida = <<APAGADAS, NO_MOVIMIENTO>>

\* C7 as stated: a default SensorMovimento that recorded 0.0, 1.0, 0.2, 1.5
\* is in alert.
C7_AlertaTrasCuatroLecturas ==
    \A i \in DOMAIN sensores :
        (/\ sensores[i].tipo = "movimiento"
         /\ sensores[i].ventana = VentanaDefecto
         /\ sensores[i]._calibracion = CalibracionDefecto
         /\ sensores[i].umbral = MovUmbralDefecto
         /\ sensores[i]._buffer = <<0, 10, 2, 15>>)
        => en_alerta(sensores[i])

\* C7 amended: a default SensorMovimento that recorded 0.0, 1.0, 0.2, 1.5 is
\* not in alert: the sample variance of its buffer is 587/1200 (in squared
\* readings), a deviation of about 0.70, below the threshold 1.0.
C7_SinAlertaTrasCuatroLecturas ==
    \A i \in DOMAIN sensores :
        (/\ sensores[i].tipo = "movimiento"
         /\ sensores[i].ventana = VentanaDefecto
         /\ sensores[i]._calibracion = CalibracionDefecto
         /\ sensores[i].umbral = MovUmbralDefecto
         /\ sensores[i]._buffer = <<0, 10, 2, 15>>)
        => ~en_alerta(sensores[i])

C7_Witness ==
    /\ ultima = "leer"
    /\ Len(sensores) = 1
    /\ sensores[1].tipo = "movimiento"
    /\ sensores[1].ventana = VentanaDefecto
    /\ sensores[1].umbral = MovUmbralDefecto
    /\ sensores[1]._buffer = <<0, 10, 2, 15>>

\* C8: a SensorMovimento whose buffer holds fewer than 2 readings is not in
\* alert, whatever the value and the threshold; with ventana 1 it is never in
\* alert.
C8_MenosDeDosLecturas ==
    \A i \in DOMAIN sensores :
        (/\ sensores[i].tipo = "movimiento"
         /\ \/ Len(sensores[i]._buffer) < 2
            \/ sensores[i].ventana = 1)
        => ~en_alerta(sensores[i])

\* a window of 1 holding a large reading, with the lowest threshold
C8_Witness ==
    /\ ultima = "leer"
    /\ Len(sensores) = 1
    /\ sensores[1].tipo = "movimiento"
    /\ sensores[1].ventana = 1
    /\ sensores[1].umbral = 0
    /\ sensores[1]._buffer = <<1000>>
    /\ ~en_alerta(sensores[1])

----------------------------------------------------------------------------
(* GestorAlertas *)

\* round(q / d) to the nearest integer, ties to even, for q >= 0 and d > 0
RedondeoPar(q, d) ==
    LET f == (2 * q + d) \div (2 * d)
    IN  IF (2 * q + d) % (2 * d) = 0 /\ f % 2 = 1 THEN f - 1 ELSE f

\* f"{promedio:.2f}": the sign and the hundredths of the average p (a tenth
\* is 10 hundredths)
Formato2(p) ==
    [signo |-> IF p[1] < 0 THEN "-" ELSE "",
     centesimas |-> RedondeoPar(Abs(p[1]) * 10, p[2])]

Mensaje(s) == [id |-> s.id, avg |-> Formato2(promedio(s))]

\* for n in self._notificadores: n.enviar(msg)
RECURSIVE EnviarATodos(_, _)
EnviarATodos(msg, ns) ==
    IF ns = <<>> THEN <<>>
    ELSE <<[notificador |-> Head(ns), mensaje |-> msg]>>
            \o EnviarATodos(msg, Tail(ns))

\* the alerting sensors' messages sent to one notifier
RECURSIVE EnviarAUno(_, _)
EnviarAUno(ss, n) ==
    IF ss = <<>> THEN <<>>
    ELSE (IF en_alerta(Head(ss))
          THEN <<[notificador |-> n, mensaje |-> Mensaje(Head(ss))]>>
          ELSE <<>>) \o EnviarAUno(Tail(ss), n)

\* GestorAlertas.evaluar_y_notificar with the two loops swapped
RECURSIVE evaluar_por_notificador(_, _)
evaluar_por_notificador(ss, ns) ==
    IF ns = <<>> THEN <<>>
    ELSE EnviarAUno(ss, Head(ns)) \o evaluar_por_notificador(ss, Tail(ns))

\* the enviar calls of one evaluar_y_notificar, in the order they are made
RECURSIVE evaluar_y_notificar(_, _)
evaluar_y_notificar(ss, ns) ==
    IF ss = <<>> THEN <<>>
    ELSE (IF en_alerta(Head(ss))
          THEN EnviarATodos(Mensaje(Head(ss)), ns)
          ELSE <<>>) \o evaluar_y_notificar(Tail(ss), ns)

\* gestor.evaluar_y_notificar()
Evaluar ==
    /\ enviados' = evaluar_y_notificar(sensores, notificadores)
    /\ evals_seguidas' = Min(evals_seguidas + 1, 2)
    /\ ultima' = "evaluar"
    /\ UNCHANGED <<sensores, hist, notificadores, varsControlador>>

----------------------------------------------------------------------------
(* Specification SpecGestor: the three sensors of the demonstration behind *)
(* a GestorAlertas with 0 .. MaxNotificadores notifiers.                   *)

MaxVentanaG == 2
ValoresG == {0, 1000}

InitGestor ==
    /\ sensores =
          <<NuevoSensor("temperatura", "T1", MaxVentanaG, CalibracionDefecto,
                        UmbralDefecto),
            NuevoSensor("vibracion", "V1", MaxVentanaG, CalibracionDefecto,
                        RmsUmbralDefecto),
            NuevoSensor("movimiento", "M1", MaxVentanaG, CalibracionDefecto,
                        MovUmbralDefecto)>>
    /\ hist = <<>>
    /\ \E n \in 0 .. MaxNotificadores : notificadores = [k \in 1 .. n |-> k]
    /\ enviados = <<>>
    /\ evals_seguidas = 0
    /\ ultima = "init"
    /\ SinControlador

NextGestor ==
    \/ \E i \in 1 .. 3, v \in ValoresG : Leer(i, v)
    \/ Evaluar

SpecGestor == InitGestor /\ [][NextGestor]_vars

EnAlerta(s) == en_alerta(s)

\* C3: every evaluar_y_notificar, a repeated one included, makes exactly
\* (sensors in alert) x (notifiers) enviar calls, sensor-major: alerting
\* sensors in registration order, and for each every notifier in registration
\* order with a message carrying that sensor's id; a sensor not in alert
\* causes no call.
C3_EnviosPorEvaluacion ==
    ultima = "evaluar" =>
        LET A == SelectSeq(sensores, EnAlerta)
            N == Len(notificadores)
        IN  /\ Len(enviados) = Len(A) * N
            /\ \A k \in DOMAIN enviados :
                  /\ enviados[k].notificador = notificadores[((k - 1) % N) + 1]
                  /\ enviados[k].mensaje.id = A[((k - 1) \div N) + 1].id

\* a second evaluation in a row with two of the three sensors in alert and two
\* notifiers: four calls again
C3_Witness ==
    /\ ultima = "evaluar"
    /\ evals_seguidas = 2
    /\ Len(notificadores) = 2
    /\ ~en_alerta(sensores[2])
    /\ Len(enviados) = 4
    /\ enviados[1].mensaje.id = "T1"
    /\ enviados[4].mensaje.id = "M1"

====
